---- MODULE Spec2Model ----
(***************************************************************************)
(* A model of s3_audio_transcribe.py: a Streamlit script that lists the    *)
(* audio objects of an S3 bucket, downloads the selected one to a          *)
(* temporary file, transcribes it, optionally translates the transcript    *)
(* and offers the texts for download.                                      *)
(*                                                                         *)
(* Strings the script computes with (keys, extensions, language labels,    *)
(* file names, texts) are sequences of one-character strings, so that      *)
(* lower(), endswith(), splitext() and concatenation are computed.         *)
(*                                                                         *)
(* The script is re-executed top to bottom on every interaction of a       *)
(* browser session; sessions of one server are threads of one process.     *)
(***************************************************************************)
EXTENDS Integers, Sequences, FiniteSets, TLC

(***************************************************************************)
(* Bounds of the model.                                                    *)
(***************************************************************************)
\* the longest bucket listing drawn in the lister's specification
MaxKeys == 3
\* browser sessions running the script concurrently (SpecConc)
NumSessions == 2
\* server processes the sessions may belong to
NumPids == 2

Sessions == 1..NumSessions
Pids == 1..NumPids

(***************************************************************************)
(* Python values.                                                          *)
(***************************************************************************)
\* None, where a string is expected
None == <<"None">>
\* bool(v) of a string or None
Truthy(v) == v # None /\ v # <<>>

UpperCase == <<"A", "B", "C", "D", "E", "F", "G", "H", "I", "J", "K", "L", "M",
               "N", "O", "P", "Q", "R", "S", "T", "U", "V", "W", "X", "Y", "Z">>
LowerCase == <<"a", "b", "c", "d", "e", "f", "g", "h", "i", "j", "k", "l", "m",
               "n", "o", "p", "q", "r", "s", "t", "u", "v", "w", "x", "y", "z">>

\* the lowercase letter of each uppercase one
LowerTable ==
    [c \in {UpperCase[i] : i \in 1..Len(UpperCase)} |->
        LowerCase[CHOOSE i \in 1..Len(UpperCase) : UpperCase[i] = c]]

\* str.lower() of one character: other characters stay as they are
lower_char(c) == IF c \in DOMAIN LowerTable THEN LowerTable[c] ELSE c

\* str.lower()
lower(str) == [i \in 1..Len(str) |-> lower_char(str[i])]

\* str.endswith(suffix)
endswith_one(str, suffix) ==
    /\ Len(suffix) <= Len(str)
    /\ SubSeq(str, Len(str) - Len(suffix) + 1, Len(str)) = suffix

\* str.endswith(tuple of suffixes)
endswith(str, suffixes) ==
    \E i \in 1..Len(suffixes) : endswith_one(str, suffixes[i])

\* str.rfind(ch), 1-based; 0 where Python returns -1
rfind(str, ch) ==
    IF \E i \in 1..Len(str) : str[i] = ch
    THEN CHOOSE i \in 1..Len(str) :
            str[i] = ch /\ \A j \in (i+1)..Len(str) : str[j] # ch
    ELSE 0

\* os.path.splitext(p): <<root, ext>>; a dot counts only after the last "/"
\* and only if a character other than "." precedes it in the file name
os_path_splitext(p) ==
    LET sepIndex == rfind(p, "/")
        dotIndex == rfind(p, ".")
    IN  IF /\ dotIndex > sepIndex
           /\ \E f \in (sepIndex + 1)..(dotIndex - 1) : p[f] # "."
        THEN <<SubSeq(p, 1, dotIndex - 1), SubSeq(p, dotIndex, Len(p))>>
        ELSE <<p, <<>>>>

(***************************************************************************)
(* Constants of the script.                                                *)
(***************************************************************************)
\* the suffixes list_s3_audio_files accepts
AudioSuffixes ==
    << <<".", "m", "p", "3">>, <<".", "m", "p", "4">>,
       <<".", "m", "p", "e", "g">>, <<".", "m", "p", "g", "a">>,
       <<".", "m", "4", "a">>, <<".", "w", "a", "v">>,
       <<".", "w", "e", "b", "m">> >>

L_Original == <<"O", "r", "i", "g", "i", "n", "a", "l", " ", "(", "N", "o", " ",
                "T", "r", "a", "n", "s", "l", "a", "t", "i", "o", "n", ")">>
L_Hindi == <<"H", "i", "n", "d", "i">>
L_Marathi == <<"M", "a", "r", "a", "t", "h", "i">>
L_Japanese == <<"J", "a", "p", "a", "n", "e", "s", "e">>
L_Spanish == <<"S", "p", "a", "n", "i", "s", "h">>
L_French == <<"F", "r", "e", "n", "c", "h">>
L_German == <<"G", "e", "r", "m", "a", "n">>

\* list(languages.keys()), the options of the language selectbox
LanguageLabels ==
    <<L_Original, L_Hindi, L_Marathi, L_Japanese, L_Spanish, L_French, L_German>>

\* the labels as a set
LabelSet == {LanguageLabels[i] : i \in 1..Len(LanguageLabels)}

\* a dictionary with a non-empty value for the first label too
languages_no_none(label) == label

\* languages[label]
languages(label) == IF label = L_Original THEN None ELSE label

(***************************************************************************)
(* The values the environment supplies.                                    *)
(***************************************************************************)
K_a_wav == <<"a", ".", "w", "a", "v">>
K_b_txt == <<"b", ".", "t", "x", "t">>
K_c_mp3 == <<"c", ".", "m", "p", "3">>
K_clip_MP3 == <<"c", "l", "i", "p", ".", "M", "P", "3">>
K_notes_TXT == <<"n", "o", "t", "e", "s", ".", "T", "X", "T">>
K_v_mp4 == <<"v", ".", "m", "p", "4">>
K_m_mpeg == <<"m", ".", "m", "p", "e", "g">>
K_g_MPGA == <<"g", ".", "M", "P", "G", "A">>
K_k_m4a == <<"k", ".", "m", "4", "a">>
K_w_webm == <<"w", ".", "w", "e", "b", "m">>
K_mp3 == <<"m", "p", "3">>
K_s_wav_bak == <<"s", ".", "w", "a", "v", ".", "b", "a", "k">>

\* object keys a bucket may hold
KeyPool ==
    { K_a_wav, K_b_txt, K_c_mp3, K_clip_MP3, K_notes_TXT, K_v_mp4, K_m_mpeg,
      K_g_MPGA, K_k_m4a, K_w_webm, K_mp3, K_s_wav_bak }

T_Bonjour == <<"B", "o", "n", "j", "o", "u", "r">>
T_Hello == <<"H", "e", "l", "l", "o">>

\* texts the speech-to-text and chat-completion services may return
TextPool == { T_Bonjour, T_Hello }

\* a list_objects_v2 response: its 'Contents' may be missing
Response(contents) == [has_contents |-> TRUE, Contents |-> contents]
NoContents == [has_contents |-> FALSE, Contents |-> <<>>]

\* response.get('Contents', [])
response_get_contents(resp) ==
    IF resp.has_contents THEN resp.Contents ELSE <<>>

(***************************************************************************)
(* list_s3_audio_files: the loop over the response's objects.              *)
(***************************************************************************)
\* the test without .lower()
is_audio_key_case_sensitive(key) == endswith(key, AudioSuffixes)

\* line 33: obj['Key'].lower().endswith((...))
is_audio_key(key) == endswith(lower(key), AudioSuffixes)

RECURSIVE audio_loop(_, _)
audio_loop(contents, files) ==
    IF contents = <<>> THEN files
    ELSE audio_loop(Tail(contents),
                    IF is_audio_key(Head(contents))
                    THEN Append(files, Head(contents))
                    ELSE files)

list_s3_audio_files(resp) ==
    audio_loop(response_get_contents(resp), <<>>)

(***************************************************************************)
(* What the script writes to the page.                                     *)
(***************************************************************************)
Elem(kind, label, data, file_name) ==
    [kind |-> kind, label |-> label, data |-> data, file_name |-> file_name]

\* st.write(f"Selected file: **{selected_file}**")
SelectedFileElem(key) == Elem("selected_file", <<>>, key, <<>>)
\* st.success("Transcription completed!")
SuccessElem == Elem("success", <<>>, <<>>, <<>>)
\* st.markdown("### Original Transcript:")
OriginalHeading == Elem("heading_original", <<>>, <<>>, <<>>)
\* st.markdown(f"### {target_language} Translation:")
TranslationHeading(label) == Elem("heading_translation", label, <<>>, <<>>)
\* st.write(text)
WriteElem(text) == Elem("write", <<>>, text, <<>>)
\* st.download_button(label=..., data=..., file_name=..., mime="text/plain")
DownloadButton(label, data, file_name) ==
    Elem("download_button", label, data, file_name)
\* st.error(f"An error occurred: {str(e)}")
ErrorElem(cause) == Elem("error", <<>>, cause, <<>>)
\* st.warning(f"Could not remove temporary file: {str(e)}")
WarningElem(cause) == Elem("warning", <<>>, cause, <<>>)
\* the traceback Streamlit shows for an exception no handler of the script caught
UncaughtElem(cause) == Elem("uncaught_exception", <<>>, cause, <<>>)

S_transcript_original_txt ==
    <<"_", "t", "r", "a", "n", "s", "c", "r", "i", "p", "t", "_",
      "o", "r", "i", "g", "i", "n", "a", "l", ".", "t", "x", "t">>
S_transcript_ == <<"_", "t", "r", "a", "n", "s", "c", "r", "i", "p", "t", "_">>
S_transcript_txt ==
    <<"_", "t", "r", "a", "n", "s", "c", "r", "i", "p", "t", ".", "t", "x", "t">>
S_txt == <<".", "t", "x", "t">>
S_Download_Original_Transcript ==
    <<"D", "o", "w", "n", "l", "o", "a", "d", " ", "O", "r", "i", "g", "i", "n",
      "a", "l", " ", "T", "r", "a", "n", "s", "c", "r", "i", "p", "t">>
S_Download_Transcript ==
    <<"D", "o", "w", "n", "l", "o", "a", "d", " ",
      "T", "r", "a", "n", "s", "c", "r", "i", "p", "t">>
S_Download_ == <<"D", "o", "w", "n", "l", "o", "a", "d", " ">>
S_Translation == <<" ", "T", "r", "a", "n", "s", "l", "a", "t", "i", "o", "n">>

\* the translated branch naming its second file without .lower()
TranslatedButtonsAsLabelled(key, label, text, translated) ==
    << DownloadButton(S_Download_Original_Transcript, text,
                      key \o S_transcript_original_txt),
       DownloadButton(S_Download_ \o label \o S_Translation, translated,
                      key \o S_transcript_ \o label \o S_txt) >>

\* the two buttons of the translated branch
TranslatedButtons(key, label, text, translated) ==
    << DownloadButton(S_Download_Original_Transcript, text,
                      key \o S_transcript_original_txt),
       DownloadButton(S_Download_ \o label \o S_Translation, translated,
                      key \o S_transcript_ \o lower(label) \o S_txt) >>

\* the one button of the untranslated branch
OriginalButton(key, text) ==
    << DownloadButton(S_Download_Transcript, text, key \o S_transcript_txt) >>

(***************************************************************************)
(* Exceptions, by their str().                                             *)
(***************************************************************************)
E_List == <<"list_objects_v2 failed">>
E_Download == <<"download_file failed">>
E_NoFile == <<"No such file or directory">>
E_Transcribe == <<"Audio.transcribe failed">>
E_Translate == <<"ChatCompletion.create failed">>
E_Remove == <<"Permission denied">>

(***************************************************************************)
(* Files.                                                                  *)
(***************************************************************************)
\* no path yet: temp_file_path = None
NoPath == << >>
\* who wrote a file: a session of the model, or an execution outside it
Foreign == NumSessions + 1

\* os.path.join(tempfile.gettempdir(), f"temp_audio_{os.getpid()}{ext}")
TempPath(p, key) == <<"tmpdir", "temp_audio_", p, os_path_splitext(key)[2]>>

(***************************************************************************)
(* State.                                                                  *)
(***************************************************************************)
VARIABLES
    response,         \* what list_objects_v2 returns for the bucket
    pid,              \* os.getpid() of the process running each session
    fs,               \* the files of the temporary directory: path -> writer
    pc,               \* where each session's script run stands
    audio_files,      \* line 65
    selected_file,    \* line 66
    target_language,  \* line 78
    temp_file_path,   \* lines 86, 89
    transcript,       \* line 95
    translated_text,  \* line 105
    outcome,          \* how the try block of the session's run ended
    ui,               \* the elements on the session's page, in order
    calls,            \* the calls the run made, in order
    drawn             \* the labels users pick among, the texts services return

vars == <<response, pid, fs, drawn, pc, audio_files, selected_file, target_language,
          temp_file_path, transcript, translated_text, outcome, ui, calls>>

Call(op, arg, arg2, ok) == [op |-> op, arg |-> arg, arg2 |-> arg2, ok |-> ok]

os_path_exists(path) == path \in DOMAIN fs

\* the file system after path is written by writer
WriteFile(path, writer) == (path :> writer) @@ fs
\* the file system after path is removed
RemoveFile(path) == [q \in (DOMAIN fs) \ {path} |-> fs[q]]

\* the listing of the scenarios: a.wav, b.txt, c.mp3
ScenarioListing == <<K_a_wav, K_b_txt, K_c_mp3>>

IdleSession ==
    /\ pc = [s \in Sessions |-> "idle"]
    /\ audio_files = [s \in Sessions |-> <<>>]
    /\ selected_file = [s \in Sessions |-> None]
    /\ target_language = [s \in Sessions |-> L_Original]
    /\ temp_file_path = [s \in Sessions |-> NoPath]
    /\ transcript = [s \in Sessions |-> None]
    /\ translated_text = [s \in Sessions |-> None]
    /\ outcome = [s \in Sessions |-> "none"]
    /\ ui = [s \in Sessions |-> <<>>]
    /\ calls = [s \in Sessions |-> <<>>]

\* one session at work, other executions seen as interference
Init ==
    /\ response \in {Response(ScenarioListing), NoContents}
    /\ pid = [s \in Sessions |-> 1]
    /\ fs = << >>
    /\ drawn = [labels |-> LabelSet, texts |-> TextPool]
    /\ IdleSession

(***************************************************************************)
(* One run of the script, top to bottom (lines 61-158).                    *)
(***************************************************************************)
\* what st.sidebar.selectbox may return for these options
SelectboxValues(options) ==
    IF options = <<>> THEN {None} ELSE {options[i] : i \in 1..Len(options)}

\* lines 61-84 of a run in which list_s3_audio_files returned files
ScriptTop(s, files, sel, lang) ==
    /\ audio_files' = [audio_files EXCEPT ![s] = files]
    /\ selected_file' = [selected_file EXCEPT ![s] = sel]
    /\ target_language' = [target_language EXCEPT ![s] = lang]
    /\ temp_file_path' = [temp_file_path EXCEPT ![s] = NoPath]
    /\ transcript' = [transcript EXCEPT ![s] = None]
    /\ translated_text' = [translated_text EXCEPT ![s] = None]
    /\ ui' = [ui EXCEPT ![s] =
                IF Truthy(sel) THEN <<SelectedFileElem(sel)>> ELSE <<>>]
    /\ calls' = [calls EXCEPT ![s] = <<Call("list", <<>>, <<>>, TRUE)>>]

\* a run in which the button is not clicked: the widgets are drawn again
Rerun(s) ==
    /\ pc[s] = "idle"
    /\ LET files == list_s3_audio_files(response) IN
       \E sel \in SelectboxValues(files) :
       \E lang \in SelectboxValues(LanguageLabels) \cap drawn.labels :
          ScriptTop(s, files, sel, lang)
    /\ outcome' = [outcome EXCEPT ![s] = "none"]
    /\ UNCHANGED <<response, pid, drawn, fs, pc>>

\* a run caused by a click on "Transcribe & Translate Audio": lines 61-86
Trigger(s) ==
    /\ pc[s] = "idle"
    /\ LET files == list_s3_audio_files(response) IN
       \E sel \in SelectboxValues(files) :
       \E lang \in SelectboxValues(LanguageLabels) \cap drawn.labels :
          /\ Truthy(sel)
          /\ ScriptTop(s, files, sel, lang)
    /\ outcome' = [outcome EXCEPT ![s] = "running"]
    /\ pc' = [pc EXCEPT ![s] = "download"]
    /\ UNCHANGED <<response, pid, drawn, fs>>

\* a run in which list_objects_v2 raises: line 65 is in no try block
ListFail(s) ==
    /\ pc[s] = "idle"
    /\ audio_files' = [audio_files EXCEPT ![s] = <<>>]
    /\ selected_file' = [selected_file EXCEPT ![s] = None]
    /\ temp_file_path' = [temp_file_path EXCEPT ![s] = NoPath]
    /\ transcript' = [transcript EXCEPT ![s] = None]
    /\ translated_text' = [translated_text EXCEPT ![s] = None]
    /\ outcome' = [outcome EXCEPT ![s] = "none"]
    /\ ui' = [ui EXCEPT ![s] = <<UncaughtElem(E_List)>>]
    /\ calls' = [calls EXCEPT ![s] = <<Call("list", <<>>, E_List, FALSE)>>]
    /\ UNCHANGED <<response, pid, drawn, fs, pc, target_language>>

(***************************************************************************)
(* The pipeline of a triggered run (lines 85-144), one action per step     *)
(* that reads or writes the shared temporary directory.                    *)
(***************************************************************************)
Show(s, elems) == ui' = [ui EXCEPT ![s] = ui[s] \o elems]
Record(s, call) == calls' = [calls EXCEPT ![s] = Append(calls[s], call)]

\* a handler after which the cleanup is not run
ExceptSkipsCleanup(s, cause) ==
    /\ Show(s, <<ErrorElem(cause)>>)
    /\ outcome' = [outcome EXCEPT ![s] = "error"]
    /\ pc' = [pc EXCEPT ![s] = "idle"]

\* a handler around the download alone, after which the pipeline goes on
ExceptContinues(s, cause) ==
    /\ Show(s, <<ErrorElem(cause)>>)
    /\ outcome' = [outcome EXCEPT ![s] = "error"]
    /\ pc' = [pc EXCEPT ![s] = IF pc[s] = "download" THEN "transcribe"
                                ELSE "finally"]

\* except Exception as e: st.error(...), then the finally block
Except(s, cause) ==
    /\ Show(s, <<ErrorElem(cause)>>)
    /\ outcome' = [outcome EXCEPT ![s] = "error"]
    /\ pc' = [pc EXCEPT ![s] = "finally"]

\* lines 89-92: the path is computed and the object downloaded to it
Download(s) ==
    /\ pc[s] = "download"
    /\ LET path == TempPath(pid[s], selected_file[s]) IN
       /\ temp_file_path' = [temp_file_path EXCEPT ![s] = path]
       /\ \/ /\ fs' = WriteFile(path, s)
             /\ Record(s, Call("download", selected_file[s], path, TRUE))
             /\ pc' = [pc EXCEPT ![s] = "transcribe"]
             /\ UNCHANGED <<ui, outcome>>
          \/ /\ \/ fs' = fs                     \* nothing is left behind
                \/ fs' = WriteFile(path, s)     \* a partial file is
             /\ Record(s, Call("download", selected_file[s], E_Download, FALSE))
             /\ Except(s, E_Download)
    /\ UNCHANGED <<response, pid, drawn, audio_files, selected_file, target_language,
                   transcript, translated_text>>

\* the transcript offered for download as soon as it is there
ShownAfterTranscribeWithButton(s, text) ==
    <<SuccessElem, OriginalHeading, WriteElem(text)>>
        \o OriginalButton(selected_file[s], text)

\* lines 98-100: what is shown as soon as the transcript is there
ShownAfterTranscribe(s, text) == <<SuccessElem, OriginalHeading, WriteElem(text)>>

\* lines 109-124, the buttons of the translated branch; 126-132, of the other
Buttons(s, text, translated) ==
    IF Truthy(languages(target_language[s]))
    THEN TranslatedButtons(selected_file[s], target_language[s], text, translated)
    ELSE OriginalButton(selected_file[s], text)

\* lines 95-103 and, with no language chosen, 125-132
Transcribe(s) ==
    /\ pc[s] = "transcribe"
    /\ \/ /\ ~os_path_exists(temp_file_path[s])        \* open() raises
          /\ Record(s, Call("open", temp_file_path[s], E_NoFile, FALSE))
          /\ Except(s, E_NoFile)
          /\ UNCHANGED transcript
       \/ /\ os_path_exists(temp_file_path[s])
          /\ Record(s, Call("transcribe", temp_file_path[s], E_Transcribe, FALSE))
          /\ Except(s, E_Transcribe)
          /\ UNCHANGED transcript
       \/ /\ os_path_exists(temp_file_path[s])
          /\ \E text \in drawn.texts :
             /\ transcript' = [transcript EXCEPT ![s] = text]
             /\ Record(s, Call("transcribe", temp_file_path[s], text, TRUE))
             /\ IF Truthy(languages(target_language[s]))
                THEN /\ Show(s, ShownAfterTranscribe(s, text))
                     /\ pc' = [pc EXCEPT ![s] = "translate"]
                     /\ UNCHANGED outcome
                ELSE /\ Show(s, ShownAfterTranscribe(s, text)
                                  \o Buttons(s, text, None))
                     /\ outcome' = [outcome EXCEPT ![s] = "ok"]
                     /\ pc' = [pc EXCEPT ![s] = "finally"]
    /\ UNCHANGED <<response, pid, drawn, fs, audio_files, selected_file,
                   target_language, temp_file_path, translated_text>>

\* lines 104-124: translate_text and what is shown after it
Translate(s) ==
    /\ pc[s] = "translate"
    /\ LET call(result, ok) ==
              Call("translate",
                   <<transcript[s], languages(target_language[s])>>, result, ok)
       IN
       \/ /\ Record(s, call(E_Translate, FALSE))
          /\ Except(s, E_Translate)
          /\ UNCHANGED translated_text
       \/ \E text \in drawn.texts :
          /\ translated_text' = [translated_text EXCEPT ![s] = text]
          /\ Record(s, call(text, TRUE))
          /\ Show(s, <<TranslationHeading(target_language[s]), WriteElem(text)>>
                       \o Buttons(s, transcript[s], text))
          /\ outcome' = [outcome EXCEPT ![s] = "ok"]
          /\ pc' = [pc EXCEPT ![s] = "finally"]
    /\ UNCHANGED <<response, pid, drawn, fs, audio_files, selected_file,
                   target_language, temp_file_path, transcript>>

\* line 139: if temp_file_path and os.path.exists(temp_file_path)
Finally(s) ==
    /\ pc[s] = "finally"
    /\ Record(s, Call("exists", temp_file_path[s], <<>>,
                      temp_file_path[s] # NoPath
                        /\ os_path_exists(temp_file_path[s])))
    /\ pc' = [pc EXCEPT ![s] =
                IF temp_file_path[s] # NoPath /\ os_path_exists(temp_file_path[s])
                THEN "remove" ELSE "idle"]
    /\ UNCHANGED <<response, pid, drawn, fs, audio_files, selected_file, target_language,
                   temp_file_path, transcript, translated_text, outcome, ui>>

\* a cleanup handler that reports the failure as the run's error
CleanupExceptEscalates(s, cause) ==
    /\ Show(s, <<ErrorElem(cause)>>)
    /\ outcome' = [outcome EXCEPT ![s] = "error"]

\* lines 143-144: except Exception as e: st.warning(...)
CleanupExcept(s, cause) ==
    /\ Show(s, <<WarningElem(cause)>>)
    /\ UNCHANGED outcome

\* lines 140-144: os.close(os.open(...)); os.remove(...); except: st.warning
Remove(s) ==
    /\ pc[s] = "remove"
    /\ \/ /\ ~os_path_exists(temp_file_path[s])        \* os.open raises
          /\ Record(s, Call("remove", temp_file_path[s], E_NoFile, FALSE))
          /\ CleanupExcept(s, E_NoFile)
          /\ UNCHANGED fs
       \/ /\ os_path_exists(temp_file_path[s])         \* os.open or os.remove raises
          /\ Record(s, Call("remove", temp_file_path[s], E_Remove, FALSE))
          /\ CleanupExcept(s, E_Remove)
          /\ UNCHANGED fs
       \/ /\ os_path_exists(temp_file_path[s])
          /\ Record(s, Call("remove", temp_file_path[s], <<>>, TRUE))
          /\ fs' = RemoveFile(temp_file_path[s])
          /\ UNCHANGED <<ui, outcome>>
    /\ pc' = [pc EXCEPT ![s] = "idle"]
    /\ UNCHANGED <<response, pid, drawn, audio_files, selected_file, target_language,
                   temp_file_path, transcript, translated_text>>

\* an execution outside the model, of the same process and extension, downloads
\* to the path the session's selection gives (line 92) or removes it (line 142)
Interfere(s) ==
    /\ Truthy(selected_file[s])
    /\ LET path == TempPath(pid[s], selected_file[s]) IN
       \/ fs' = WriteFile(path, Foreign)
       \/ /\ os_path_exists(path)
          /\ fs' = RemoveFile(path)
    /\ UNCHANGED <<response, pid, drawn, pc, audio_files, selected_file, target_language,
                   temp_file_path, transcript, translated_text, outcome, ui, calls>>

Step(s) ==
    \/ Rerun(s)
    \/ Trigger(s)
    \/ ListFail(s)
    \/ Download(s)
    \/ Transcribe(s)
    \/ Translate(s)
    \/ Finally(s)
    \/ Remove(s)

\* the session whose runs Spec follows: the first
Main == CHOOSE s \in Sessions : \A t \in Sessions : s <= t

Next == Step(Main) \/ Interfere(Main)

Spec == Init /\ [][Next]_vars

\* the sessions of the model at work together, the later ones in the process
\* of the first or in another
InitConc ==
    /\ response = Response(ScenarioListing)
    /\ pid \in {f \in [Sessions -> Pids] : f[Main] = 1}
    /\ fs = << >>
    /\ drawn = [labels |-> {L_Original, L_French}, texts |-> {T_Bonjour}]
    /\ IdleSession

NextConc == \E s \in Sessions : Step(s)

SpecConc == InitConc /\ [][NextConc]_vars

\* the sequences over S of length at most n
RECURSIVE SeqsUpTo(_, _)
SeqsUpTo(S, n) ==
    IF n = 0 THEN {<<>>}
    ELSE LET shorter == SeqsUpTo(S, n - 1)
         IN  shorter \cup {Append(q, k) : q \in shorter, k \in S}

\* the lister on every listing of at most MaxKeys keys, no language chosen
InitLister ==
    /\ response \in {Response(q) : q \in SeqsUpTo(KeyPool, MaxKeys)}
                      \cup {NoContents}
    /\ pid = [s \in Sessions |-> 1]
    /\ fs = << >>
    /\ drawn = [labels |-> {L_Original}, texts |-> TextPool]
    /\ IdleSession

NextLister == Rerun(Main)

SpecLister == InitLister /\ [][NextLister]_vars

(***************************************************************************)
(* What the claims speak of.                                               *)
(***************************************************************************)
\* the positions of the page's elements of a kind
ElemsOfKind(s, kind) == {i \in 1..Len(ui[s]) : ui[s][i].kind = kind}
\* the positions of the run's calls of an operation
CallsOf(s, op) == {i \in 1..Len(calls[s]) : calls[s][i].op = op}
\* the pipeline was triggered in the session's last run and has ended
Settled(s) == pc[s] = "idle" /\ outcome[s] \in {"ok", "error"}
\* the calls of the three stages; open() belongs to the transcribe stage
StageOps == {"download", "open", "transcribe", "translate"}
\* the text the Transcriber returned in the run, None if it returned none
TranscriberOutput(s) ==
    IF \E i \in CallsOf(s, "transcribe") : calls[s][i].ok
    THEN calls[s][CHOOSE i \in CallsOf(s, "transcribe") : calls[s][i].ok].arg2
    ELSE None
\* the text the Translator returned in the run, None if it returned none
TranslatorOutput(s) ==
    IF \E i \in CallsOf(s, "translate") : calls[s][i].ok
    THEN calls[s][CHOOSE i \in CallsOf(s, "translate") : calls[s][i].ok].arg2
    ELSE None
\* the download buttons of the page, in order
ButtonAt(s, n) ==
    ui[s][CHOOSE i \in ElemsOfKind(s, "download_button") :
            Cardinality({j \in ElemsOfKind(s, "download_button") : j <= i}) = n]

(***************************************************************************)
(* C1: every triggered pipeline execution, whether its stages succeed or   *)
(* one raises, runs the cleanup; at the step in which it settles no file   *)
(* is at its temporary path, and from then on no file the session wrote is *)
(* there, unless the removal failed and a warning is shown.                *)
(***************************************************************************)
\* the cleanup has run and nothing the session wrote is left unwarned
C1_SettledState(s) ==
    Settled(s) =>
       /\ CallsOf(s, "exists") # {}
       /\ temp_file_path[s] # NoPath
       /\ (/\ os_path_exists(temp_file_path[s])
           /\ fs[temp_file_path[s]] = s)
              => ElemsOfKind(s, "warning") # {}

\* the step that ends the execution leaves no file at the path unwarned
C1_SettlingStep(s) ==
    (pc[s] # "idle" /\ pc'[s] = "idle") =>
       (os_path_exists(temp_file_path[s])' => ElemsOfKind(s, "warning")' # {})

C1_CleanupLeavesNoTempFile ==
    /\ [](\A s \in Sessions : C1_SettledState(s))
    /\ [][\A s \in Sessions : C1_SettlingStep(s)]_vars

\* a failed execution whose cleanup removed what the download left behind
C1_Witness ==
    /\ Settled(Main) /\ outcome[Main] = "error"
    /\ \E i \in CallsOf(Main, "remove") : calls[Main][i].ok
    /\ ~os_path_exists(temp_file_path[Main])
    /\ ElemsOfKind(Main, "warning") = {}

(***************************************************************************)
(* C2, as claimed: whenever an execution ends in the error state, neither  *)
(* the transcript nor a translation has been displayed or offered for      *)
(* download.                                                               *)
(***************************************************************************)
C2_NoResultsOnError ==
    \A s \in Sessions :
       outcome[s] = "error" =>
          /\ ElemsOfKind(s, "write") = {}
          /\ ElemsOfKind(s, "download_button") = {}

(***************************************************************************)
(* C2, amended: whenever an execution ends in the error state, nothing is  *)
(* offered for download and no translation has been displayed; the         *)
(* transcript has been displayed exactly when the exception was raised in  *)
(* the translate stage.                                                    *)
(***************************************************************************)
C2_ErrorShowsAtMostTheTranscript ==
    \A s \in Sessions :
       outcome[s] = "error" =>
          /\ ElemsOfKind(s, "download_button") = {}
          /\ ElemsOfKind(s, "heading_translation") = {}
          /\ translated_text[s] = None
          /\ IF \E i \in CallsOf(s, "translate") : ~calls[s][i].ok
             THEN /\ Cardinality(ElemsOfKind(s, "write")) = 1
                  /\ \A i \in ElemsOfKind(s, "write") :
                        ui[s][i].data = TranscriberOutput(s)
             ELSE ElemsOfKind(s, "write") = {}

\* an execution whose translation failed, with its transcript on the page
C2_Witness ==
    /\ Settled(Main) /\ outcome[Main] = "error"
    /\ \E i \in ElemsOfKind(Main, "write") : ui[Main][i].data = T_Bonjour
    /\ \E i \in ElemsOfKind(Main, "error") : ui[Main][i].data = E_Translate

(***************************************************************************)
(* C3: within one execution the Translator is invoked if and only if the   *)
(* transcribe stage succeeded and the language choice is not the           *)
(* no-translation one; it is invoked at most once, with the complete       *)
(* Transcriber output and the chosen language's name.                      *)
(***************************************************************************)
C3_TranslatorInvokedOnceIffChosen ==
    \A s \in Sessions :
       /\ Cardinality(CallsOf(s, "translate")) <= 1
       /\ \A i \in CallsOf(s, "translate") :
             /\ TranscriberOutput(s) # None
             /\ target_language[s] # L_Original
             /\ calls[s][i].arg = <<TranscriberOutput(s), target_language[s]>>
       /\ Settled(s) =>
             (CallsOf(s, "translate") # {}
                <=> (TranscriberOutput(s) # None /\ target_language[s] # L_Original))

\* the scenario: "Bonjour" transcribed, French chosen, the Translator called
C3_Witness ==
    /\ Settled(Main)
    /\ \E i \in CallsOf(Main, "translate") :
          calls[Main][i].arg = <<T_Bonjour, L_French>>

(***************************************************************************)
(* C4: a successful execution with selected key k offers, with no          *)
(* translation chosen, exactly one download, named k_transcript.txt, and   *)
(* with language L chosen exactly two, named k_transcript_original.txt and *)
(* k_transcript_<L in lowercase>.txt; the original's content is the text   *)
(* the Transcriber returned, the translation's the text the Translator     *)
(* returned.                                                               *)
(***************************************************************************)
\* the languages' names in lowercase, written out
LowercaseName(label) ==
    CASE label = L_Hindi -> <<"h", "i", "n", "d", "i">>
      [] label = L_Marathi -> <<"m", "a", "r", "a", "t", "h", "i">>
      [] label = L_Japanese -> <<"j", "a", "p", "a", "n", "e", "s", "e">>
      [] label = L_Spanish -> <<"s", "p", "a", "n", "i", "s", "h">>
      [] label = L_French -> <<"f", "r", "e", "n", "c", "h">>
      [] label = L_German -> <<"g", "e", "r", "m", "a", "n">>

C4_DownloadsNamedAndFilled ==
    \A s \in Sessions :
       (Settled(s) /\ outcome[s] = "ok") =>
          IF target_language[s] = L_Original
          THEN /\ Cardinality(ElemsOfKind(s, "download_button")) = 1
               /\ ButtonAt(s, 1).file_name =
                     selected_file[s] \o S_transcript_txt
               /\ ButtonAt(s, 1).data = TranscriberOutput(s)
               /\ TranscriberOutput(s) # None
          ELSE /\ Cardinality(ElemsOfKind(s, "download_button")) = 2
               /\ ButtonAt(s, 1).file_name =
                     selected_file[s] \o S_transcript_original_txt
               /\ ButtonAt(s, 1).data = TranscriberOutput(s)
               /\ ButtonAt(s, 2).file_name =
                     selected_file[s] \o S_transcript_
                        \o LowercaseName(target_language[s]) \o S_txt
               /\ ButtonAt(s, 2).data = TranslatorOutput(s)
               /\ TranscriberOutput(s) # None
               /\ TranslatorOutput(s) # None

\* the scenario: c.mp3, French, "Bonjour" translated to "Hello"
C4_Witness ==
    /\ Settled(Main) /\ outcome[Main] = "ok"
    /\ selected_file[Main] = K_c_mp3 /\ target_language[Main] = L_French
    /\ Cardinality(ElemsOfKind(Main, "download_button")) = 2
    /\ ButtonAt(Main, 1).file_name =
          <<"c", ".", "m", "p", "3", "_", "t", "r", "a", "n", "s", "c", "r", "i",
            "p", "t", "_", "o", "r", "i", "g", "i", "n", "a", "l", ".", "t", "x", "t">>
    /\ ButtonAt(Main, 1).data = T_Bonjour
    /\ ButtonAt(Main, 2).file_name =
          <<"c", ".", "m", "p", "3", "_", "t", "r", "a", "n", "s", "c", "r", "i",
            "p", "t", "_", "f", "r", "e", "n", "c", "h", ".", "t", "x", "t">>
    /\ ButtonAt(Main, 2).data = T_Hello

(***************************************************************************)
(* C5: list_s3_audio_files returns exactly the listed keys whose           *)
(* lowercased form ends in .mp3, .mp4, .mpeg, .mpga, .m4a, .wav or .webm,  *)
(* in their original relative order ("clip.MP3" is included, "notes.TXT"   *)
(* is not), and the empty sequence when the response holds no objects.     *)
(***************************************************************************)
\* the keys of KeyPool the claim counts as audio, written out
AudioKeysOfPool ==
    { K_a_wav, K_c_mp3, K_clip_MP3, K_v_mp4, K_m_mpeg, K_g_MPGA, K_k_m4a,
      K_w_webm }

\* sub holds the elements of full that are in keep, in the order of full
IsOrderedSelection(sub, full, keep) ==
    LET kept == {i \in 1..Len(full) : full[i] \in keep}
    IN  /\ Len(sub) = Cardinality(kept)
        /\ \A n \in 1..Len(sub) :
              sub[n] = full[CHOOSE i \in kept :
                               Cardinality({j \in kept : j <= i}) = n]

C5_ListerKeepsAudioKeysInOrder ==
    \A s \in Sessions :
       (\E i \in CallsOf(s, "list") : calls[s][i].ok) =>
          /\ response.has_contents =>
                IsOrderedSelection(audio_files[s], response.Contents,
                                   AudioKeysOfPool)
          /\ ~response.has_contents => audio_files[s] = <<>>
          /\ \A i \in 1..Len(audio_files[s]) :
                audio_files[s][i] \notin {K_notes_TXT, K_b_txt, K_mp3, K_s_wav_bak}

\* clip.MP3 listed between a text file and a second audio key, and kept
C5_Witness ==
    /\ response = Response(<<K_notes_TXT, K_clip_MP3, K_a_wav>>)
    /\ CallsOf(Main, "list") # {}
    /\ audio_files[Main] = <<K_clip_MP3, K_a_wav>>

(***************************************************************************)
(* C6, as claimed: an error raised by any remote call (storage listing,    *)
(* storage download, speech-to-text, chat completion) is caught by the     *)
(* top-level handler and shown as exactly one error message carrying the   *)
(* cause; none propagates uncaught out of the render cycle.                *)
(***************************************************************************)
C6_EveryRemoteErrorIsCaught ==
    \A s \in Sessions :
       \A i \in 1..Len(calls[s]) :
          (calls[s][i].op \in {"list", "download", "transcribe", "translate"}
             /\ ~calls[s][i].ok) =>
                /\ ElemsOfKind(s, "uncaught_exception") = {}
                /\ Cardinality(ElemsOfKind(s, "error")) = 1
                /\ \A e \in ElemsOfKind(s, "error") :
                      ui[s][e].data = calls[s][i].arg2

(***************************************************************************)
(* C7: a failure to remove the temporary file is reported only as a        *)
(* warning: it is not re-raised, it is not the error message, and the      *)
(* outcome stays what it was (a successful execution ends with its results *)
(* available, a failed one shows its one original error).                  *)
(***************************************************************************)
C7_RemovalFailureIsOnlyAWarning ==
    \A s \in Sessions :
       (Settled(s) /\ \E i \in CallsOf(s, "remove") : ~calls[s][i].ok) =>
          /\ Cardinality(ElemsOfKind(s, "warning")) = 1
          /\ ElemsOfKind(s, "uncaught_exception") = {}
          /\ \A i \in CallsOf(s, "remove"), w \in ElemsOfKind(s, "warning") :
                ui[s][w].data = calls[s][i].arg2
          /\ IF \E i \in 1..Len(calls[s]) :
                   calls[s][i].op \in StageOps /\ ~calls[s][i].ok
             THEN /\ outcome[s] = "error"
                  /\ Cardinality(ElemsOfKind(s, "error")) = 1
                  /\ \A e \in ElemsOfKind(s, "error"), i \in 1..Len(calls[s]) :
                        (calls[s][i].op \in StageOps /\ ~calls[s][i].ok)
                           => ui[s][e].data = calls[s][i].arg2
             ELSE /\ outcome[s] = "ok"
                  /\ ElemsOfKind(s, "error") = {}
                  /\ \E i \in ElemsOfKind(s, "write") :
                        ui[s][i].data = TranscriberOutput(s)
                  /\ ElemsOfKind(s, "download_button") # {}

\* a successful execution whose removal failed: results and a warning
C7_Witness ==
    /\ Settled(Main) /\ outcome[Main] = "ok"
    /\ \E i \in CallsOf(Main, "remove") : ~calls[Main][i].ok
    /\ ElemsOfKind(Main, "warning") # {}
    /\ Cardinality(ElemsOfKind(Main, "download_button")) = 2

(***************************************************************************)
(* C8, as claimed: no two pipeline executions in flight at the same time   *)
(* compute the same temporary path.                                        *)
(***************************************************************************)
C8_TempPathsNeverShared ==
    \A s, t \in Sessions :
       (/\ s # t
        /\ pc[s] # "idle" /\ pc[t] # "idle"
        /\ temp_file_path[s] # NoPath /\ temp_file_path[t] # NoPath)
          => temp_file_path[s] # temp_file_path[t]

(***************************************************************************)
(* C9: the stages run in the order download, transcribe, translate, and a  *)
(* stage that raises skips every later one: the Transcriber is called only *)
(* after the download of the same execution returned without error, the    *)
(* Translator only after the Transcriber returned, and after an exception  *)
(* in a stage no later stage's call is made.                               *)
(***************************************************************************)
C9_StagesInOrderAndSkippedAfterError ==
    \A s \in Sessions :
       \A i \in 1..Len(calls[s]) :
          /\ calls[s][i].op \in {"open", "transcribe"} =>
                \E j \in 1..(i - 1) :
                   calls[s][j].op = "download" /\ calls[s][j].ok
          /\ calls[s][i].op = "translate" =>
                \E j \in 1..(i - 1) :
                   calls[s][j].op = "transcribe" /\ calls[s][j].ok
          /\ (calls[s][i].op \in StageOps /\ ~calls[s][i].ok) =>
                \A j \in (i + 1)..Len(calls[s]) : calls[s][j].op \notin StageOps
          /\ calls[s][i].op = "download" =>
                \A j \in 1..(i - 1) : calls[s][j].op \notin StageOps

\* an execution whose download failed and which made no later stage's call
C9_Witness ==
    /\ Settled(Main)
    /\ \E i \in CallsOf(Main, "download") : ~calls[Main][i].ok
    /\ CallsOf(Main, "open") \cup CallsOf(Main, "transcribe")
          \cup CallsOf(Main, "translate") = {}
    /\ CallsOf(Main, "exists") # {}

(***************************************************************************)
(* C10, as claimed: after a successful execution the transcript and its    *)
(* download buttons are still available on every later render cycle of the *)
(* session that does not trigger the pipeline again.                       *)
(***************************************************************************)
ResultsAvailable(s) ==
    /\ ElemsOfKind(s, "write") # {}
    /\ ElemsOfKind(s, "download_button") # {}

C10_ResultsKeptAcrossRenders ==
    [][\A s \in Sessions :
          (/\ Settled(s) /\ outcome[s] = "ok" /\ ResultsAvailable(s)
           /\ pc'[s] = "idle"
           /\ calls'[s] = <<Call("list", <<>>, <<>>, TRUE)>>)
             => ResultsAvailable(s)']_vars

====
